---- MODULE Spec2Model ----
(***************************************************************************)
(* The Wmii layout of libqtile/layout/wmii.py as a state machine.          *)
(*                                                                         *)
(* The layout keeps a list of columns (each a dict with the keys 'active', *)
(* 'width', 'mode' and 'rows'), a flat list of clients and the focused     *)
(* client.  Every method of the class is an operator from the layout to    *)
(* the outcome of the call (the layout it leaves, what it returns, the     *)
(* exception it raises) and one action applying it; a method that raises   *)
(* leaves the layout as it was when the exception left it.                 *)
(*                                                                         *)
(* Python lists are 0-based and TLA+ sequences 1-based: row and column     *)
(* indices named ridx, cidx and 'active' keep Python's 0-based values and  *)
(* At0 reads a sequence at a 0-based index.                                *)
(***************************************************************************)
EXTENDS Integers, Sequences, FiniteSets, TLC

\* Number of distinct window handles the host may hand to the layout.
NumClients == 2

\* Largest number of row entries, over all columns, at which add is still issued.
MaxRows == 3

Client == 1..NumClients

\* Python's None, for current_window and for return values.
None == 0

\* A column dict that has no 'active' key (add_column builds one).
NoActive == -1

NoFault == "none"

VARIABLES
    columns,          \* self.columns
    clients,          \* self.clients
    current_window,   \* self.current_window
    phase             \* the calls so far: "add" (only add), "remove" (add calls, then
                      \* only remove calls of registered clients) or "mixed"

vars == <<columns, clients, current_window, phase>>

----------------------------------------------------------------------------
(* Python list primitives *)

In(seq, x) == \E i \in 1..Len(seq) : seq[i] = x

\* list.index(x), 0-based; only used when x is in the list.
Index0(seq, x) == (CHOOSE i \in 1..Len(seq) : seq[i] = x /\ \A j \in 1..(i - 1) : seq[j] # x) - 1

At0(seq, i) == seq[i + 1]

\* list.remove(x): drops the first element equal to x.
ListRemove(seq, x) ==
    LET i == Index0(seq, x) + 1
    IN  [j \in 1..(Len(seq) - 1) |-> IF j < i THEN seq[j] ELSE seq[j + 1]]

\* array with the elements at 0-based a and b exchanged.
swap(array, a, b) ==
    [array EXCEPT ![b + 1] = array[a + 1], ![a + 1] = array[b + 1]]

----------------------------------------------------------------------------
(* The layout object and the outcome of a method call *)

St(cols, cl, cw) == [columns |-> cols, clients |-> cl, current_window |-> cw]

Out(s, r, f) == [state |-> s, ret |-> r, fault |-> f]

EmptyColumn == [active |-> 0, width |-> 100, mode |-> "split", rows |-> <<>>]

\* int(100 / n)
NewWidth(n) == 100 \div n

SetWidths(cols, w) == [i \in 1..Len(cols) |-> [cols[i] EXCEPT !.width = w]]

\* 1-based position of the first column whose rows hold client, 0 when there is none:
\* the column the loops "for c in self.columns: if client in c['rows']" stop at.
FirstColumnWith(cols, client) ==
    IF \E i \in 1..Len(cols) : In(cols[i].rows, client)
    THEN CHOOSE i \in 1..Len(cols) :
            /\ In(cols[i].rows, client)
            /\ \A j \in 1..(i - 1) : ~In(cols[j].rows, client)
    ELSE 0

\* current_column(): position of the column of the focused client, 0 for None.
current_column(s) ==
    IF s.current_window = None THEN 0
    ELSE FirstColumnWith(s.columns, s.current_window)

\* focus(client) that moves the pointer and leaves every 'active' index as it was.
focus_pointer_only(s, client) == [s EXCEPT !.current_window = client]

\* focus(client)
focus(s, client) ==
    [s EXCEPT !.current_window = client,
              !.columns = [i \in 1..Len(s.columns) |->
                             IF In(s.columns[i].rows, client)
                             THEN [s.columns[i] EXCEPT !.active = Index0(s.columns[i].rows, client)]
                             ELSE s.columns[i]]]

\* group.focus(client) of the host: hands the client to the layout's focus.
group_focus(s, client) == focus(s, client)

\* info(): the snapshot a status query reports (clients stand for their names).
info(s) == [current_window |-> s.current_window, clients |-> s.clients]

\* add_column(prepend, win) that gives only the new column the new width.
add_column_keep_widths(cols, prepend, win) ==
    LET newwidth == NewWidth(Len(cols) + 1)
        c == [active |-> NoActive, width |-> newwidth, mode |-> "split", rows |-> <<win>>]
    IN  IF prepend THEN <<c>> \o cols
        ELSE Append(cols, c)

\* add_column(prepend, win)
add_column(cols, prepend, win) ==
    LET newwidth == NewWidth(Len(cols) + 1)
        c == [active |-> NoActive, width |-> newwidth, mode |-> "split", rows |-> <<win>>]
    IN  IF prepend THEN <<c>> \o SetWidths(cols, newwidth)
        ELSE Append(SetWidths(cols, newwidth), c)

\* add(client)
add(s, client) ==
    LET s1 == [s EXCEPT !.clients = Append(s.clients, client)]
        c  == current_column(s1)
        k  == IF c = 0 THEN 1 ELSE c
    IN  IF Len(s1.columns) < k THEN Out(s1, None, "IndexError")
        ELSE Out(focus([s1 EXCEPT !.columns[k].rows = Append(@, client)], client), None, NoFault)

\* remove, lines 131-146, with the right neighbour selected in place of the left.
remove_emptied_right(s, cols, c1, cidx) ==
    LET cols2 == ListRemove(cols, c1)
    IN  IF Len(cols2) = 0
        THEN Out([s EXCEPT !.columns = cols2], None, "ZeroDivisionError")
        ELSE LET cols3 == SetWidths(cols2, NewWidth(Len(cols2)))
                 s3 == [s EXCEPT !.columns = cols3]
             IN  IF Len(cols3) = 1 THEN Out(s3, None, NoFault)
                 ELSE IF cidx >= Len(cols3) \/ Len(At0(cols3, cidx).rows) = 0
                      THEN Out(s3, None, "IndexError")
                      ELSE LET newclient == At0(At0(cols3, cidx).rows, 0)
                           IN  Out(group_focus([s3 EXCEPT !.current_window = newclient],
                                               newclient),
                                   newclient, NoFault)

\* The part of remove(client) that runs when the emptied column c1 is dropped
\* (lines 131-146); cols still holds c1, cidx is its former 0-based index.
remove_emptied(s, cols, c1, cidx) ==
    LET cols2 == ListRemove(cols, c1)
    IN  IF Len(cols2) = 0
        THEN Out([s EXCEPT !.columns = cols2], None, "ZeroDivisionError")
        ELSE LET cols3 == SetWidths(cols2, NewWidth(Len(cols2)))
                 s3 == [s EXCEPT !.columns = cols3]
                 ci == IF cidx > 0 THEN cidx - 1 ELSE cidx
             IN  IF Len(cols3) = 1 THEN Out(s3, None, NoFault)
                 ELSE IF ci >= Len(cols3) \/ Len(At0(cols3, ci).rows) = 0
                      THEN Out(s3, None, "IndexError")
                      ELSE LET newclient == At0(At0(cols3, ci).rows, 0)
                           IN  Out(group_focus([s3 EXCEPT !.current_window = newclient],
                                               newclient),
                                   newclient, NoFault)

\* The part of remove(client) that runs for the focused client (lines 119-146);
\* s1 is the layout with client already out of the registry.
remove_focused(s1, client) ==
    LET s2 == [s1 EXCEPT !.current_window = None]
        k == FirstColumnWith(s2.columns, client)
    IN  IF k = 0 THEN Out(s2, None, NoFault)
        ELSE LET c == s2.columns[k]
                 ridx == Index0(c.rows, client)
                 cidx == Index0(s2.columns, c)
                 c1 == [c EXCEPT !.rows = ListRemove(c.rows, client)]
                 cols1 == [s2.columns EXCEPT ![k] = c1]
             IN  IF Len(c1.rows) # 0
                 THEN LET r == IF ridx > 0 THEN ridx - 1 ELSE ridx
                          newclient == At0(c1.rows, r)
                      IN  Out(focus([s2 EXCEPT !.columns = cols1], newclient),
                              newclient, NoFault)
                 ELSE remove_emptied(s2, cols1, c1, cidx)

\* remove(client) that takes a client that is not focused out of its row as well.
remove_with_row(s, client) ==
    IF ~In(s.clients, client) THEN Out(s, None, NoFault)
    ELSE LET s1 == [s EXCEPT !.clients = ListRemove(s.clients, client)]
             k == FirstColumnWith(s.columns, client)
         IN  IF s.current_window # client
             THEN IF k = 0 THEN Out(s1, None, NoFault)
                  ELSE Out([s1 EXCEPT !.columns[k].rows = ListRemove(@, client)], None, NoFault)
             ELSE remove_focused(s1, client)

\* remove(client)
remove(s, client) ==
    IF ~In(s.clients, client) THEN Out(s, None, NoFault)
    ELSE LET s1 == [s EXCEPT !.clients = ListRemove(s.clients, client)]
         IN  IF s.current_window # client THEN Out(s1, None, NoFault)
             ELSE remove_focused(s1, client)

\* configure(client, screen): what the pass does to the client. It returns None
\* when the client is not registered or in no column, "place" when the client is
\* placed and unhidden and "hide" when it is hidden; reading 'active' of a column
\* that has no such key raises KeyError. The rectangle handed to place is computed
\* from the screen and changes neither the decision nor the layout.
configure(s, client) ==
    IF ~In(s.clients, client) THEN Out(s, None, NoFault)
    ELSE LET k == FirstColumnWith(s.columns, client)
         IN  IF k = 0 THEN Out(s, None, NoFault)
             ELSE LET c == s.columns[k]
                  IN  IF c.mode = "split" THEN Out(s, "place", NoFault)
                      ELSE IF c.active = NoActive THEN Out(s, None, "KeyError")
                      ELSE IF c.active # Index0(c.rows, client) THEN Out(s, "hide", NoFault)
                      ELSE Out(s, "place", NoFault)

\* cmd_toggle_split()
cmd_toggle_split(s) ==
    LET c == current_column(s)
    IN  IF c = 0 THEN Out(s, None, "TypeError")
        ELSE Out([s EXCEPT !.columns[c].mode = IF @ = "split" THEN "stack" ELSE "split"],
                 None, NoFault)

\* cmd_left() that goes round from the first column to the last one.
cmd_left_wrap(s) ==
    LET c == current_column(s)
    IN  IF c = 0 THEN Out(s, None, "ValueError")
        ELSE LET cidx == Index0(s.columns, s.columns[c])
                 prev == IF cidx = 0 THEN Len(s.columns) - 1 ELSE cidx - 1
             IN  IF Len(At0(s.columns, prev).rows) = 0 THEN Out(s, None, "IndexError")
                 ELSE Out(group_focus(s, At0(At0(s.columns, prev).rows, 0)), None, NoFault)

\* cmd_left()
cmd_left(s) ==
    LET c == current_column(s)
    IN  IF c = 0 THEN Out(s, None, "ValueError")
        ELSE LET cidx == Index0(s.columns, s.columns[c])
             IN  IF cidx = 0 THEN Out(s, None, NoFault)
                 ELSE IF Len(At0(s.columns, cidx - 1).rows) = 0 THEN Out(s, None, "IndexError")
                 ELSE Out(group_focus(s, At0(At0(s.columns, cidx - 1).rows, 0)), None, NoFault)

\* cmd_right()
cmd_right(s) ==
    LET c == current_column(s)
    IN  IF c = 0 THEN Out(s, None, "ValueError")
        ELSE LET cidx == Index0(s.columns, s.columns[c])
             IN  IF cidx = Len(s.columns) - 1 THEN Out(s, None, NoFault)
                 ELSE IF Len(At0(s.columns, cidx + 1).rows) = 0 THEN Out(s, None, "IndexError")
                 ELSE Out(group_focus(s, At0(At0(s.columns, cidx + 1).rows, 0)), None, NoFault)

\* cmd_up() that stops at the top row in either mode.
cmd_up_nowrap(s) ==
    LET c == current_column(s)
    IN  IF c = 0 THEN Out(s, None, NoFault)
        ELSE LET rows == s.columns[c].rows
                 ridx == Index0(rows, s.current_window)
             IN  IF ridx = 0 THEN Out(s, None, NoFault)
                 ELSE Out(group_focus(s, At0(rows, ridx - 1)), None, NoFault)

\* cmd_up(); a row index of -1 reads the last row.
cmd_up(s) ==
    LET c == current_column(s)
    IN  IF c = 0 THEN Out(s, None, NoFault)
        ELSE LET rows == s.columns[c].rows
                 ridx == Index0(rows, s.current_window)
             IN  IF s.columns[c].mode = "split" /\ ridx = 0 THEN Out(s, None, NoFault)
                 ELSE LET r == IF ridx - 1 < 0 THEN Len(rows) - 1 ELSE ridx - 1
                      IN  Out(group_focus(s, At0(rows, r)), None, NoFault)

\* cmd_down()
cmd_down(s) ==
    LET c == current_column(s)
    IN  IF c = 0 THEN Out(s, None, NoFault)
        ELSE LET rows == s.columns[c].rows
                 ridx == Index0(rows, s.current_window)
             IN  IF s.columns[c].mode = "split" /\ ridx = Len(rows) - 1 THEN Out(s, None, NoFault)
                 ELSE IF ridx + 1 >= Len(rows) THEN Out(s, None, "IndexError")
                 ELSE Out(group_focus(s, At0(rows, ridx + 1)), None, NoFault)

\* The end of cmd_shuffle_left and cmd_shuffle_right that deletes the emptied
\* column and leaves the widths of the others as they were.
shuffle_finish_keep_widths(s, cols, c, cur) ==
    IF Len(c.rows) # 0 THEN Out(group_focus([s EXCEPT !.columns = cols], cur), None, NoFault)
    ELSE IF ~In(cols, c) THEN Out([s EXCEPT !.columns = cols], None, "ValueError")
    ELSE LET cols1 == ListRemove(cols, c)
         IN  IF Len(cols1) = 0 THEN Out([s EXCEPT !.columns = cols1], None, "ZeroDivisionError")
             ELSE Out(group_focus([s EXCEPT !.columns = cols1], cur), None, NoFault)

\* The end of cmd_shuffle_left and cmd_shuffle_right (lines 316-323, 343-348):
\* c is the source column as it stands in cols, cur the moved client.
shuffle_finish(s, cols, c, cur) ==
    IF Len(c.rows) # 0 THEN Out(group_focus([s EXCEPT !.columns = cols], cur), None, NoFault)
    ELSE IF ~In(cols, c) THEN Out([s EXCEPT !.columns = cols], None, "ValueError")
    ELSE LET cols1 == ListRemove(cols, c)
         IN  IF Len(cols1) = 0 THEN Out([s EXCEPT !.columns = cols1], None, "ZeroDivisionError")
             ELSE Out(group_focus([s EXCEPT !.columns = SetWidths(cols1, NewWidth(Len(cols1)))], cur),
                      None, NoFault)

\* cmd_shuffle_left() that puts the client in front of the rows of the column on
\* the left, not behind them.
cmd_shuffle_left_front(s) ==
    LET cur == s.current_window
        k == IF cur = None THEN 0 ELSE FirstColumnWith(s.columns, cur)
    IN  IF k = 0 THEN Out(s, None, NoFault)
        ELSE LET c == s.columns[k]
                 cidx == Index0(s.columns, c)
                 cols1 == [s.columns EXCEPT ![k].rows = ListRemove(@, cur)]
             IN  IF cidx = 0
                 THEN IF Len(c.rows) = 1 THEN Out(s, None, NoFault)
                      ELSE LET cols2 == add_column(cols1, TRUE, cur)
                               c2 == cols2[k + 1]
                               cols3 == IF Len(c2.rows) = 0 THEN ListRemove(cols2, c2) ELSE cols2
                           IN  shuffle_finish(s, cols3, c2, cur)
                 ELSE LET cols2 == [cols1 EXCEPT ![cidx].rows = <<cur>> \o @]
                      IN  shuffle_finish(s, cols2, cols2[k], cur)

\* cmd_shuffle_left()
cmd_shuffle_left(s) ==
    LET cur == s.current_window
        k == IF cur = None THEN 0 ELSE FirstColumnWith(s.columns, cur)
    IN  IF k = 0 THEN Out(s, None, NoFault)
        ELSE LET c == s.columns[k]
                 cidx == Index0(s.columns, c)
                 cols1 == [s.columns EXCEPT ![k].rows = ListRemove(@, cur)]
             IN  IF cidx = 0
                 THEN IF Len(c.rows) = 1 THEN Out(s, None, NoFault)
                      ELSE LET cols2 == add_column(cols1, TRUE, cur)
                               c2 == cols2[k + 1]
                               cols3 == IF Len(c2.rows) = 0 THEN ListRemove(cols2, c2) ELSE cols2
                           IN  shuffle_finish(s, cols3, c2, cur)
                 ELSE LET cols2 == [cols1 EXCEPT ![cidx].rows = Append(@, cur)]
                      IN  shuffle_finish(s, cols2, cols2[k], cur)

\* cmd_shuffle_right()
cmd_shuffle_right(s) ==
    LET cur == s.current_window
        k == IF cur = None THEN 0 ELSE FirstColumnWith(s.columns, cur)
    IN  IF k = 0 THEN Out(s, None, NoFault)
        ELSE LET c == s.columns[k]
                 cidx == Index0(s.columns, c)
                 cols1 == [s.columns EXCEPT ![k].rows = ListRemove(@, cur)]
             IN  IF cidx = Len(s.columns) - 1
                 THEN IF Len(c.rows) = 1 THEN Out(s, None, NoFault)
                      ELSE LET cols2 == add_column(cols1, FALSE, cur)
                               c2 == cols2[k]
                               cols3 == IF Len(c2.rows) = 0 THEN ListRemove(cols2, c2) ELSE cols2
                           IN  shuffle_finish(s, cols3, c2, cur)
                 ELSE LET cols2 == [cols1 EXCEPT ![cidx + 2].rows = Append(@, cur)]
                      IN  shuffle_finish(s, cols2, cols2[k], cur)

\* cmd_shuffle_down()
cmd_shuffle_down(s) ==
    LET k == FirstColumnWith(s.columns, s.current_window)
    IN  IF k = 0 THEN Out(s, None, NoFault)
        ELSE LET r == s.columns[k].rows
                 ridx == Index0(r, s.current_window)
             IN  IF ~(ridx < Len(r)) THEN Out(s, None, NoFault)
                 ELSE IF ridx + 1 >= Len(r) THEN Out(s, None, "IndexError")
                 ELSE LET r1 == swap(r, ridx, ridx + 1)
                          client == At0(r1, ridx + 1)
                          s1 == [s EXCEPT !.columns[k].rows = r1]
                      IN  Out(group_focus(focus(s1, client), client), None, NoFault)

\* cmd_shuffle_up()
cmd_shuffle_up(s) ==
    LET k == FirstColumnWith(s.columns, s.current_window)
    IN  IF k = 0 THEN Out(s, None, NoFault)
        ELSE LET r == s.columns[k].rows
                 ridx == Index0(r, s.current_window)
             IN  IF ~(ridx > 0) THEN Out(s, None, NoFault)
                 ELSE LET r1 == swap(r, ridx - 1, ridx)
                          client == At0(r1, ridx - 1)
                          s1 == [s EXCEPT !.columns[k].rows = r1]
                      IN  Out(group_focus(focus(s1, client), client), None, NoFault)


----------------------------------------------------------------------------
(* The state machine *)

Cur == St(columns, clients, current_window)

TotalRows(cols) ==
    LET RECURSIVE Sum(_)
        Sum(i) == IF i = 0 THEN 0 ELSE Len(cols[i].rows) + Sum(i - 1)
    IN  Sum(Len(cols))

\* phase observes the sequence of calls; it is no field of the layout.
\* The calls so far, after one more call of method name; registered tells whether
\* its argument was a registered client.
NextPhase(name, registered) ==
    IF name = "add" /\ phase = "add" THEN "add"
    ELSE IF name = "remove" /\ registered /\ phase \in {"add", "remove"} THEN "remove"
    ELSE "mixed"

\* One call: the layout becomes the one the method leaves behind, whether it
\* returned or raised.
Apply(o) ==
    /\ columns' = o.state.columns
    /\ clients' = o.state.clients
    /\ current_window' = o.state.current_window

Init ==
    /\ columns = <<EmptyColumn>>
    /\ clients = <<>>
    /\ current_window = None
    /\ phase = "add"

\* The host adds a window it does not manage yet.
Add ==
    \E c \in Client :
        /\ ~In(clients, c)
        /\ TotalRows(columns) < MaxRows
        /\ Apply(add(Cur, c))
        /\ phase' = NextPhase("add", FALSE)

\* The host drops a window; remove returns at once when it is not registered.
Remove ==
    \E c \in Client :
        /\ Apply(remove(Cur, c))
        /\ phase' = NextPhase("remove", In(clients, c))

\* The host focuses one of the windows it manages.
Focus ==
    \E c \in Client :
        /\ In(clients, c)
        /\ Apply(Out(focus(Cur, c), None, NoFault))
        /\ phase' = "mixed"

ToggleSplit ==
    /\ Apply(cmd_toggle_split(Cur))
    /\ phase' = "mixed"

Left ==
    /\ Apply(cmd_left(Cur))
    /\ phase' = "mixed"

Right ==
    /\ Apply(cmd_right(Cur))
    /\ phase' = "mixed"

Up ==
    /\ Apply(cmd_up(Cur))
    /\ phase' = "mixed"

Down ==
    /\ Apply(cmd_down(Cur))
    /\ phase' = "mixed"

ShuffleLeft ==
    /\ Apply(cmd_shuffle_left(Cur))
    /\ phase' = "mixed"

ShuffleRight ==
    /\ Apply(cmd_shuffle_right(Cur))
    /\ phase' = "mixed"

ShuffleUp ==
    /\ Apply(cmd_shuffle_up(Cur))
    /\ phase' = "mixed"

ShuffleDown ==
    /\ Apply(cmd_shuffle_down(Cur))
    /\ phase' = "mixed"

Next ==
    \/ Add
    \/ Remove
    \/ Focus
    \/ ToggleSplit
    \/ Left
    \/ Right
    \/ Up
    \/ Down
    \/ ShuffleLeft
    \/ ShuffleRight
    \/ ShuffleUp
    \/ ShuffleDown

Spec == Init /\ [][Next]_vars

----------------------------------------------------------------------------
(* Vocabulary of the properties *)

\* The 1-based positions of the columns whose rows hold client.
ColumnsWith(cols, client) == {i \in 1..Len(cols) : In(cols[i].rows, client)}

\* How many rows, over all columns, hold client.
Occurrences(cols, client) ==
    Cardinality({<<i, j>> \in (1..Len(cols)) \X (1..MaxRows + 1) :
                    j <= Len(cols[i].rows) /\ cols[i].rows[j] = client})

\* seq without its element at 0-based index i.
DropAt0(seq, i) == [j \in 1..(Len(seq) - 1) |-> IF j <= i THEN seq[j] ELSE seq[j + 1]]

Widths(cols) == [i \in 1..Len(cols) |-> cols[i].width]

Modes(cols) == [i \in 1..Len(cols) |-> cols[i].mode]

Rows(cols) == [i \in 1..Len(cols) |-> cols[i].rows]

Max0(n) == IF n > 0 THEN n ELSE 0

\* The host may call add(c) here.
CanAdd(c) == ~In(clients, c) /\ TotalRows(columns) < MaxRows

----------------------------------------------------------------------------
(* The properties *)

\* C1: in every reachable state the column list holds at least one column.
C1_AtLeastOneColumn == Len(columns) >= 1

\* C2: after add of each client of a set followed by remove of each of them, with
\* no other call in between, there is exactly one column, it has no rows, and the
\* registry is empty.
C2_AddThenRemoveLeavesPlaceholder ==
    (phase \in {"add", "remove"} /\ clients = <<>>)
        => (Len(columns) = 1 /\ Len(columns[1].rows) = 0)

\* C3: every registered client occurs in at most one row, over all columns.
C3_RegisteredClientInAtMostOneRow ==
    \A c \in Client : In(clients, c) => Occurrences(columns, c) <= 1

\* C4: the focused client, if set, is in the rows of exactly one column.
C4_FocusedInExactlyOneColumn ==
    current_window # None => Cardinality(ColumnsWith(columns, current_window)) = 1

\* C5: every column with rows has an 'active' index that is defined and is an
\* index of one of its rows.
C5_ActiveIndexValid ==
    \A i \in 1..Len(columns) :
        Len(columns[i].rows) > 0 =>
            /\ columns[i].active # NoActive
            /\ 0 <= columns[i].active
            /\ columns[i].active < Len(columns[i].rows)

\* C6: remove of a registered client that is not the focused one takes it out of
\* the registry and changes nothing else: the columns (rows, mode, width, active),
\* their number and the focus pointer stay, so the client keeps its row.
C6_RemoveNonFocusedOnlyUnregisters ==
    \A c \in Client :
        (In(clients, c) /\ current_window # c) =>
            LET o == remove(Cur, c)
            IN  /\ o.state.clients = SelectSeq(clients, LAMBDA x : x # c)
                /\ o.state.columns = columns
                /\ o.state.current_window = current_window
                /\ o.fault = NoFault

\* A state remove leaves in that case: after add calls and then remove calls only,
\* a client is no longer registered and still holds a row, and another is focused.
C6_Witness ==
    /\ phase = "remove"
    /\ current_window # None
    /\ \E c \in Client :
        /\ ~In(clients, c)
        /\ c # current_window
        /\ ColumnsWith(columns, c) # {}

\* C7: remove of the focused client at row i of a column that keeps rows: the
\* client leaves the registry and that column's rows, focus and the return value
\* are the client now at row max(i - 1, 0), the column's active index is
\* max(i - 1, 0), and the number of columns and their widths stay.
C7_RemoveFocusedRefocusesPreviousRow ==
    \A c \in Client :
        LET k == FirstColumnWith(columns, c)
        IN  (In(clients, c) /\ current_window = c /\ k # 0 /\ Len(columns[k].rows) > 1) =>
                LET o == remove(Cur, c)
                    i == Index0(columns[k].rows, c)
                    m == Max0(i - 1)
                IN  /\ o.fault = NoFault
                    /\ ~In(o.state.clients, c)
                    /\ Len(o.state.columns) = Len(columns)
                    /\ Widths(o.state.columns) = Widths(columns)
                    /\ o.state.columns[k].rows = DropAt0(columns[k].rows, i)
                    /\ o.state.current_window = At0(o.state.columns[k].rows, m)
                    /\ o.state.columns[k].active = m
                    /\ o.ret = o.state.current_window

\* The case of C8: c is focused and registered, it is the only row of its column,
\* and more than one column is left once that column is deleted.
C8_Case(c) ==
    /\ In(clients, c)
    /\ current_window = c
    /\ FirstColumnWith(columns, c) # 0
    /\ columns[FirstColumnWith(columns, c)].rows = <<c>>
    /\ Len(columns) - 1 > 1

\* The 0-based index k of the column of c.
C8_K(c) == FirstColumnWith(columns, c) - 1

\* remove(c) deletes one column and makes the first row of the column that was at
\* 0-based index former the focus and the return value.
C8_Selects(c, former) ==
    LET o == remove(Cur, c)
        sel == At0(columns, former)
    IN  /\ o.fault = NoFault
        /\ Len(o.state.columns) = Len(columns) - 1
        /\ o.state.current_window = At0(sel.rows, 0)
        /\ o.ret = At0(sel.rows, 0)

\* C8 as stated: remove of the focused client that was the only row of column k,
\* with more than one column left: the column formerly at index max(k - 1, 0) is
\* selected, and its first row is the focus and the return value.
C8_SelectsFormerMaxKMinus1 ==
    \A c \in Client : C8_Case(c) => C8_Selects(c, Max0(C8_K(c) - 1))

\* C8 as amended: the selected column is the one formerly at index k - 1 when
\* k > 0 and the one formerly at index 1 (the new first column) when k = 0.
C8_SelectsLeftNeighbourOrNewFirst ==
    \A c \in Client : C8_Case(c) => C8_Selects(c, IF C8_K(c) > 0 THEN C8_K(c) - 1 ELSE 1)

\* The focused client is the only row of the first of three or more columns, and
\* remove returns the first row of the column that was second.
C8_Witness ==
    \E c \in Client :
        /\ In(clients, c) /\ current_window = c
        /\ Len(columns) >= 3
        /\ columns[1].rows = <<c>>
        /\ remove(Cur, c).ret = columns[2].rows[1]
        /\ remove(Cur, c).ret # c
        /\ remove(Cur, c).state.current_window = columns[2].rows[1]

\* C9: add(client) appends client to the registry and to the rows of the column
\* of the focused client (the first column when nothing is focused); then client
\* is focused and is the row at that column's active index; no other column's
\* rows change, and the number of columns and their widths stay.
C9_AddAppendsToCurrentColumn ==
    \A c \in Client :
        CanAdd(c) =>
            LET o == add(Cur, c)
                cc == current_column(Cur)
                k == IF cc = 0 THEN 1 ELSE cc
            IN  /\ o.fault = NoFault
                /\ o.state.clients = Append(clients, c)
                /\ Len(o.state.columns) = Len(columns)
                /\ Widths(o.state.columns) = Widths(columns)
                /\ \A i \in 1..Len(columns) :
                        o.state.columns[i].rows =
                            IF i = k THEN Append(columns[i].rows, c) ELSE columns[i].rows
                /\ o.state.current_window = c
                /\ k <= Len(columns)
                /\ o.state.columns[k].active \in 0..(Len(o.state.columns[k].rows) - 1)
                /\ At0(o.state.columns[k].rows, o.state.columns[k].active) = c

\* C10: focus(c) of a client c that is in some column's rows makes c the focus
\* (and the one a status query reports), makes c the row at the active index of
\* every column that holds c, and leaves rows, modes, widths and registry alone.
C10_FocusSetsPointerAndActive ==
    \A c \in Client :
        ColumnsWith(columns, c) # {} =>
            LET s == focus(Cur, c)
            IN  /\ s.current_window = c
                /\ info(s).current_window = c
                /\ info(s).clients = clients
                /\ Rows(s.columns) = Rows(columns)
                /\ Modes(s.columns) = Modes(columns)
                /\ Widths(s.columns) = Widths(columns)
                /\ \A i \in ColumnsWith(columns, c) :
                        /\ s.columns[i].active \in 0..(Len(columns[i].rows) - 1)
                        /\ At0(columns[i].rows, s.columns[i].active) = c
                /\ \A i \in (1..Len(columns)) \ ColumnsWith(columns, c) :
                        s.columns[i].active = columns[i].active

\* A registered client that is not focused sits at a row other than its column's
\* active one, so focus moves both the pointer and the active index.
C10_Witness ==
    \E c \in Client :
        /\ In(clients, c)
        /\ current_window # c
        /\ \E i \in ColumnsWith(columns, c) :
            /\ Len(columns[i].rows) >= 2
            /\ columns[i].active # NoActive
            /\ At0(columns[i].rows, columns[i].active) # c
            /\ focus(Cur, c).columns[i].active # columns[i].active

\* C11: with the focused client in column k, cmd_left (cmd_right) makes the first
\* row of column k - 1 (k + 1) the focus and moves no client; when k is the first
\* (last) column it changes nothing. Neither fails.
C11_LeftRightFocusFirstRowOfNeighbour ==
    LET k == current_column(Cur)
        l == cmd_left(Cur)
        r == cmd_right(Cur)
    IN  k # 0 =>
            /\ l.fault = NoFault
            /\ r.fault = NoFault
            /\ IF k = 1 THEN l.state = Cur
               ELSE /\ Len(columns[k - 1].rows) > 0
                    /\ l.state.current_window = columns[k - 1].rows[1]
                    /\ Rows(l.state.columns) = Rows(columns)
                    /\ Modes(l.state.columns) = Modes(columns)
                    /\ Widths(l.state.columns) = Widths(columns)
                    /\ l.state.clients = clients
            /\ IF k = Len(columns) THEN r.state = Cur
               ELSE /\ Len(columns[k + 1].rows) > 0
                    /\ r.state.current_window = columns[k + 1].rows[1]
                    /\ Rows(r.state.columns) = Rows(columns)
                    /\ Modes(r.state.columns) = Modes(columns)
                    /\ Widths(r.state.columns) = Widths(columns)
                    /\ r.state.clients = clients

\* The focused client is in the second, last column and another client heads the
\* first: cmd_left moves the focus there, cmd_right changes nothing.
C11_Witness ==
    /\ Len(columns) >= 2
    /\ current_column(Cur) = 2
    /\ Len(columns) = 2
    /\ Len(columns[1].rows) > 0
    /\ columns[1].rows[1] # current_window
    /\ cmd_left(Cur).state.current_window = columns[1].rows[1]
    /\ cmd_left(cmd_left(Cur).state).state = cmd_left(Cur).state
    /\ cmd_right(Cur).state = Cur

\* C12: with the focused client at row i of its column, cmd_up makes row i - 1 the
\* focus when i > 0; at the top row it changes nothing in a split column and makes
\* the bottom row the focus in a stacked one. It does not fail and no client
\* changes its row or column.
C12_UpFocusesRowAboveOrWraps ==
    LET k == current_column(Cur)
        o == cmd_up(Cur)
    IN  k # 0 =>
            LET rows == columns[k].rows
                i == Index0(rows, current_window)
            IN  /\ o.fault = NoFault
                /\ Rows(o.state.columns) = Rows(columns)
                /\ Modes(o.state.columns) = Modes(columns)
                /\ Widths(o.state.columns) = Widths(columns)
                /\ o.state.clients = clients
                /\ IF i > 0 THEN o.state.current_window = At0(rows, i - 1)
                   ELSE IF columns[k].mode = "split" THEN o.state = Cur
                   ELSE o.state.current_window = At0(rows, Len(rows) - 1)

\* The focused client is the top row of a stacked column of several rows, and
\* cmd_up makes the bottom row, another client, the focus.
C12_Witness ==
    LET k == current_column(Cur)
    IN  /\ k # 0
        /\ columns[k].mode = "stack"
        /\ Len(columns[k].rows) >= 2
        /\ columns[k].rows[1] = current_window
        /\ columns[k].rows[Len(columns[k].rows)] # current_window
        /\ cmd_up(Cur).state.current_window = columns[k].rows[Len(columns[k].rows)]

\* C13: with the focused client at row i of its column, cmd_down makes row i + 1
\* the focus when i is not the bottom row; at the bottom row it changes nothing in
\* a split column and makes the top row the focus in a stacked one. It does not
\* fail and no client changes its row or column.
C13_DownFocusesRowBelowOrWraps ==
    LET k == current_column(Cur)
        o == cmd_down(Cur)
    IN  k # 0 =>
            LET rows == columns[k].rows
                i == Index0(rows, current_window)
            IN  /\ o.fault = NoFault
                /\ Rows(o.state.columns) = Rows(columns)
                /\ Modes(o.state.columns) = Modes(columns)
                /\ Widths(o.state.columns) = Widths(columns)
                /\ o.state.clients = clients
                /\ IF i < Len(rows) - 1 THEN o.state.current_window = At0(rows, i + 1)
                   ELSE IF columns[k].mode = "split" THEN o.state = Cur
                   ELSE o.state.current_window = At0(rows, 0)

\* C14: cmd_shuffle_up with the focused client at the top row of its column, and
\* cmd_shuffle_down with the focused client at the bottom row of its column (a
\* single row included), do not fail and change nothing.
C14_ShuffleAtBoundaryIsNoOp ==
    LET k == current_column(Cur)
    IN  k # 0 =>
            LET rows == columns[k].rows
                i == Index0(rows, current_window)
            IN  /\ i = 0 =>
                    /\ cmd_shuffle_up(Cur).fault = NoFault
                    /\ cmd_shuffle_up(Cur).state = Cur
                /\ i = Len(rows) - 1 =>
                    /\ cmd_shuffle_down(Cur).fault = NoFault
                    /\ cmd_shuffle_down(Cur).state = Cur

\* C15: with the focused client at a row i that is not the top (bottom) row of its
\* column, cmd_shuffle_up (cmd_shuffle_down) exchanges the rows i and i - 1
\* (i + 1) of that column and changes no other row and no other column; the focus
\* is still that client, and the column's active index is its new row index.
C15_ShuffleSwapsNeighbours ==
    LET k == current_column(Cur)
    IN  k # 0 =>
            LET rows == columns[k].rows
                i == Index0(rows, current_window)
                u == cmd_shuffle_up(Cur)
                d == cmd_shuffle_down(Cur)
            IN  /\ i > 0 =>
                    /\ u.fault = NoFault
                    /\ u.state.columns =
                           [columns EXCEPT ![k].rows = swap(rows, i - 1, i),
                                           ![k].active = i - 1]
                    /\ u.state.current_window = current_window
                    /\ u.state.clients = clients
                /\ i < Len(rows) - 1 =>
                    /\ d.fault = NoFault
                    /\ d.state.columns =
                           [columns EXCEPT ![k].rows = swap(rows, i, i + 1),
                                           ![k].active = i + 1]
                    /\ d.state.current_window = current_window
                    /\ d.state.clients = clients

\* C16: cmd_shuffle_right (cmd_shuffle_left) with the focused client in the last
\* (first) column. With more than one row there, the client leaves that column, a
\* new split column holding only that client is appended (prepended), every other
\* column keeps its rows, there is one column more, every width is 100 div the new
\* number of columns, and the focus stays. With exactly one row nothing changes.
C16_ShuffleAtEdgeOpensColumn ==
    LET k == current_column(Cur)
        n == Len(columns)
    IN  k # 0 =>
            LET rows == columns[k].rows
                i == Index0(rows, current_window)
                r == cmd_shuffle_right(Cur)
                l == cmd_shuffle_left(Cur)
            IN  /\ k = n =>
                    /\ r.fault = NoFault
                    /\ IF Len(rows) = 1 THEN r.state = Cur
                       ELSE /\ Len(r.state.columns) = n + 1
                            /\ r.state.columns[n + 1].rows = <<current_window>>
                            /\ r.state.columns[n + 1].mode = "split"
                            /\ \A j \in 1..n :
                                   r.state.columns[j].rows =
                                       IF j = k THEN DropAt0(rows, i) ELSE columns[j].rows
                            /\ \A j \in 1..(n + 1) : r.state.columns[j].width = 100 \div (n + 1)
                            /\ r.state.current_window = current_window
                            /\ r.state.clients = clients
                /\ k = 1 =>
                    /\ l.fault = NoFault
                    /\ IF Len(rows) = 1 THEN l.state = Cur
                       ELSE /\ Len(l.state.columns) = n + 1
                            /\ l.state.columns[1].rows = <<current_window>>
                            /\ l.state.columns[1].mode = "split"
                            /\ \A j \in 1..n :
                                   l.state.columns[j + 1].rows =
                                       IF j = k THEN DropAt0(rows, i) ELSE columns[j].rows
                            /\ \A j \in 1..(n + 1) : l.state.columns[j].width = 100 \div (n + 1)
                            /\ l.state.current_window = current_window
                            /\ l.state.clients = clients

\* The focused client is the second of two rows of the only column:
\* cmd_shuffle_right leaves two columns of width 50, the first with the other
\* client, the second with the focused one.
C16_Witness ==
    /\ Len(columns) = 1
    /\ Len(columns[1].rows) = 2
    /\ columns[1].rows[2] = current_window
    /\ columns[1].rows[1] # current_window
    /\ Rows(cmd_shuffle_right(Cur).state.columns) = << <<columns[1].rows[1]>>, <<current_window>> >>
    /\ Widths(cmd_shuffle_right(Cur).state.columns) = <<50, 50>>
    /\ cmd_shuffle_right(Cur).state.current_window = current_window

\* Every column of cols has the width 100 div (number of columns).
WidthsEven(cols) == \A i \in 1..Len(cols) : cols[i].width = 100 \div Len(cols)

\* C17: when remove of the focused client, cmd_shuffle_left or cmd_shuffle_right
\* deletes an emptied column and a column remains, every remaining column has the
\* width 100 div (number of remaining columns); and in every reachable state every
\* column has the width 100 div (number of columns).
C17_WidthsEvenAfterColumnDeleted ==
    /\ WidthsEven(columns)
    /\ \A c \in Client :
           LET o == remove(Cur, c)
           IN  (current_window = c /\ Len(o.state.columns) < Len(columns))
                   => WidthsEven(o.state.columns)
    /\ Len(cmd_shuffle_left(Cur).state.columns) < Len(columns)
           => WidthsEven(cmd_shuffle_left(Cur).state.columns)
    /\ Len(cmd_shuffle_right(Cur).state.columns) < Len(columns)
           => WidthsEven(cmd_shuffle_right(Cur).state.columns)

\* Three columns of width 33, the focused client alone in one of them:
\* cmd_shuffle_right deletes its column and leaves two columns of width 50, and so
\* does remove of that client.
C17_Witness ==
    /\ Widths(columns) = <<33, 33, 33>>
    /\ current_window # None
    /\ In(clients, current_window)
    /\ Widths(cmd_shuffle_right(Cur).state.columns) = <<50, 50>>
    /\ Widths(remove(Cur, current_window).state.columns) = <<50, 50>>

\* m, the outcome of a call made on the current layout, signals no failure and
\* leaves the layout as it is.
SilentNoOp(m) == m.fault = NoFault /\ m.state = Cur

\* C18: when no client is focused, each of cmd_left, cmd_right, cmd_up, cmd_down,
\* cmd_toggle_split and cmd_shuffle_left/right/up/down signals no failure and
\* leaves the layout unchanged.
C18_CommandsWithoutFocusAreNoOps ==
    current_window = None =>
        /\ SilentNoOp(cmd_left(Cur))
        /\ SilentNoOp(cmd_right(Cur))
        /\ SilentNoOp(cmd_up(Cur))
        /\ SilentNoOp(cmd_down(Cur))
        /\ SilentNoOp(cmd_toggle_split(Cur))
        /\ SilentNoOp(cmd_shuffle_left(Cur))
        /\ SilentNoOp(cmd_shuffle_right(Cur))
        /\ SilentNoOp(cmd_shuffle_up(Cur))
        /\ SilentNoOp(cmd_shuffle_down(Cur))

\* C19: the focus pointer is none only if no client is registered; and when remove
\* of the focused client deletes its emptied column, leaves exactly one column and
\* returns none, that column has no rows and no client is registered.
C19_NoFocusOnlyWithoutClients ==
    /\ current_window = None => clients = <<>>
    /\ \A c \in Client :
           LET o == remove(Cur, c)
           IN  (/\ In(clients, c)
                /\ current_window = c
                /\ Len(o.state.columns) = Len(columns) - 1
                /\ Len(o.state.columns) = 1
                /\ o.ret = None)
                   => /\ o.state.columns[1].rows = <<>>
                      /\ o.state.clients = <<>>

\* C20: the focus pointer is none or a client that is in the registry.
C20_FocusIsRegistered ==
    current_window # None => In(clients, current_window)

\* The registered clients in the rows of column i.
RegisteredIn(i) == {c \in Client : In(clients, c) /\ In(columns[i].rows, c)}

\* C21: configure called for every registered client shows exactly one client of
\* each stacked column that holds a registered client: the row at the column's
\* active index is a registered client and is placed, and every other registered
\* client of the column is hidden.
C21_StackedColumnShowsActiveRow ==
    \A i \in 1..Len(columns) :
        (columns[i].mode = "stack" /\ RegisteredIn(i) # {}) =>
            /\ columns[i].active \in 0..(Len(columns[i].rows) - 1)
            /\ LET a == At0(columns[i].rows, columns[i].active)
               IN  /\ In(clients, a)
                   /\ configure(Cur, a).fault = NoFault
                   /\ configure(Cur, a).ret = "place"
                   /\ \A c \in RegisteredIn(i) \ {a} :
                          /\ configure(Cur, c).fault = NoFault
                          /\ configure(Cur, c).ret = "hide"

\* The rows of the columns of cols once the row at 0-based index i of column k
\* has gone to the end of column t: column k is dropped when that was its only row.
RowsAfterMove(cols, k, i, t) ==
    LET moved == [j \in 1..Len(cols) |->
                     IF j = k THEN DropAt0(cols[j].rows, i)
                     ELSE IF j = t THEN Append(cols[j].rows, At0(cols[k].rows, i))
                     ELSE cols[j].rows]
    IN  IF Len(cols[k].rows) > 1 THEN moved
        ELSE [j \in 1..(Len(cols) - 1) |-> IF j < k THEN moved[j] ELSE moved[j + 1]]

\* How many rows, over all columns, hold client: its multiplicity in the
\* multiset of the clients in rows.
RowCount(cols, client) ==
    LET RECURSIVE Sum(_)
        Sum(i) == IF i = 0 THEN 0
                  ELSE Cardinality({j \in 1..Len(cols[i].rows) : cols[i].rows[j] = client})
                           + Sum(i - 1)
    IN  Sum(Len(cols))

\* The call with outcome o keeps the registry and, for every client, the number
\* of rows that hold it.
ConservesClients(o) ==
    /\ o.state.clients = clients
    /\ \A c \in Client : RowCount(o.state.columns, c) = RowCount(columns, c)

\* C22: cmd_shuffle_left and cmd_shuffle_right keep the registry and the multiset
\* of clients over all rows; with the focused client in a column that has a left
\* (right) neighbour, the client leaves its column and becomes the last row of
\* that neighbour, and the order of all other clients in their columns stays.
C22_ShuffleConservesClients ==
    \A k \in {current_column(Cur)}, l \in {cmd_shuffle_left(Cur)}, r \in {cmd_shuffle_right(Cur)} :
        /\ ConservesClients(l)
        /\ ConservesClients(r)
        /\ k # 0 =>
               \A i \in {Index0(columns[k].rows, current_window)} :
                   /\ k > 1 =>
                          /\ l.fault = NoFault
                          /\ Rows(l.state.columns) = RowsAfterMove(columns, k, i, k - 1)
                   /\ k < Len(columns) =>
                          /\ r.fault = NoFault
                          /\ Rows(r.state.columns) = RowsAfterMove(columns, k, i, k + 1)

\* The focused client is one of several rows of the second column, and
\* cmd_shuffle_left makes it the last row of the first column, after the client
\* that was there.
C22_Witness ==
    /\ Len(columns) >= 2
    /\ current_column(Cur) = 2
    /\ Len(columns[2].rows) >= 2
    /\ Len(columns[1].rows) >= 1
    /\ columns[1].rows[1] # current_window
    /\ Len(cmd_shuffle_left(Cur).state.columns) = Len(columns)
    /\ cmd_shuffle_left(Cur).state.columns[1].rows = Append(columns[1].rows, current_window)
    /\ Len(cmd_shuffle_left(Cur).state.columns[2].rows) = Len(columns[2].rows) - 1

====
